---- MODULE Spec2Model ----
(***************************************************************************)
(* State-machine model of the two interactive scripts of the repository:   *)
(*   src/simple-audio-test.py  (general audio test,  script = "simple")    *)
(*   src/test-audio.py         (Realtek remediation, script = "realtek")   *)
(*                                                                         *)
(* Every external collaborator (subprocess.run / subprocess.Popen, the     *)
(* IsUserAnAdmin call, platform.version, input) is an input drawn from a   *)
(* small set.  A character is its Unicode code point and a text (a typed   *)
(* line, a version string, captured stdout or stderr, an instance id) the  *)
(* sequence of its characters; split, strip, int and "in" are computed on  *)
(* that sequence.                                                          *)
(* The printed terminal output is logged per section: print_header starts  *)
(* a new section, and so does each choice prompt of the menu loop.         *)
(***************************************************************************)
EXTENDS Integers, Sequences, FiniteSets, TLC

VARIABLES
    script,       \* which entry point runs: "simple" or "realtek"
    pc,           \* position in main()
    inBody,       \* TRUE once the header of the step at pc has been printed
    out,          \* terminal transcript of the current section
    cmds,         \* external commands issued in the current section
    steps,        \* step functions entered so far, in order
    osAdmin,      \* what IsUserAnAdmin() answers when it does not raise
    is_admin,     \* test-audio.py main(): is_admin
    instance_id,  \* test-audio.py main(): instance_id
    drvAnswer,    \* adapter's result for the driver-status query of this section
    scAnswer,     \* adapter's canned results for "sc query <service>", this section
    ret,          \* return value of the last action step (True/False)
    rounds,       \* number of inputs read at the menu's choice prompt
    exitChosen,   \* an input parsing to 5 has been read at the choice prompt
    completed,    \* how many times the closing summary has been printed
    stepFailed,   \* a command issued by the most recent step failed
    errShown,     \* an error message was printed at or after that failure
    acked         \* a blocking prompt was answered after that failure

vars == << script, pc, inBody, out, cmds, steps, osAdmin, is_admin, instance_id,
           drvAnswer, scAnswer, ret, rounds, exitChosen, completed,
           stepFailed, errShown, acked >>

(***************************************************************************)
(* Bound of the model.                                                     *)
(***************************************************************************)
\* Inputs read at the "Enter your choice (1-5)" prompt before the user exits.
MaxMenuInputs == 2

(***************************************************************************)
(* Characters, str methods and int()                                       *)
(***************************************************************************)
\* '\n', '+', '-', '.', ':' and '_'
NewLine    == 10
PlusSign   == 43
MinusSign  == 45
Dot        == 46
Colon      == 58
Underscore == 95

\* The characters str.strip() removes (those str.isspace() accepts): TAB, LF,
\* VT, FF, CR, FS, GS, RS, US, SPACE, NEL, NBSP and the Unicode spaces.
WhiteSpace ==
    (9..13) \cup (28..32) \cup {133, 160, 5760} \cup (8192..8202)
    \cup {8232, 8233, 8239, 8287, 12288}

IsSpace(c) == c \in WhiteSpace

RECURSIVE LStrip(_, _)
LStrip(s, ws) ==
    IF s # << >> /\ Head(s) \in ws THEN LStrip(Tail(s), ws) ELSE s

RECURSIVE RStrip(_, _)
RStrip(s, ws) ==
    IF s # << >> /\ s[Len(s)] \in ws THEN RStrip(SubSeq(s, 1, Len(s) - 1), ws) ELSE s

\* str.strip()
Strip(s) == RStrip(LStrip(s, WhiteSpace), WhiteSpace)

\* The characters int() skips around the number: white space without the
\* separators U+001C..U+001F.
IntSpace == WhiteSpace \ (28..31)

\* The digits zero int() accepts: '0' and the zero of every other Unicode
\* decimal digit range (each is followed by its digits one to nine).
DecimalZeros ==
    { 48, 1632, 1776, 1984, 2406, 2534, 2662, 2790, 2918, 3046, 3174, 3302,
      3430, 3558, 3664, 3792, 3872, 4160, 4240, 6112, 6160, 6470, 6608,
      6784, 6800, 6992, 7088, 7232, 7248, 42528, 43216, 43264, 43472,
      43504, 43600, 44016, 65296, 66720, 68912, 69734, 69872, 69942, 70096,
      70384, 70736, 70864, 71248, 71360, 71472, 71904, 72016, 72784, 73040,
      73120, 92768, 92864, 93008, 120782, 120792, 120802, 120812, 120822,
      123200, 123632, 125264, 130032 }

IsDigit(c) == \E z \in DecimalZeros : c \in z..(z + 9)

DigitVal(c) == c - (CHOOSE z \in DecimalZeros : c \in z..(z + 9))

\* sys.int_max_str_digits: int() raises ValueError for a text of more digits.
MaxStrDigits == 4300

\* An int of Python has no width: it is kept as its sign and its decimal
\* digits, most significant first and without leading zeros (zero has none).
IntValue(neg, mag) == [ok |-> TRUE, neg |-> neg /\ mag # << >>, mag |-> mag]

ValueError == [ok |-> FALSE, neg |-> FALSE, mag |-> << >>]

\* The decimal digits of a natural number
RECURSIVE Decimal(_)
Decimal(n) == IF n = 0 THEN << >> ELSE Append(Decimal(n \div 10), n % 10)

\* A sequence of digit values without its leading zeros
Canonical(ds) ==
    IF \A i \in 1..Len(ds) : ds[i] = 0
    THEN << >>
    ELSE LET k == CHOOSE i \in 1..Len(ds) :
                      ds[i] # 0 /\ \A j \in 1..(i - 1) : ds[j] = 0
         IN  SubSeq(ds, k, Len(ds))

\* The value of digits with single underscores between them.
DigitsValue(s) ==
    LET ds == SelectSeq(s, IsDigit)
    IN  Canonical([i \in 1..Len(ds) |-> DigitVal(ds[i])])

\* int(text): white space skipped at both ends, an optional sign, then decimal
\* digits, at most MaxStrDigits of them, with single underscores allowed
\* between two digits; anything else raises ValueError (ok = FALSE).
ParseInt(s) ==
    LET t == RStrip(LStrip(s, IntSpace), IntSpace)
        signed == t # << >> /\ Head(t) \in {PlusSign, MinusSign}
        d == IF signed THEN Tail(t) ELSE t
        good == /\ d # << >>
                /\ \A i \in 1..Len(d) : IsDigit(d[i]) \/ d[i] = Underscore
                /\ IsDigit(d[1]) /\ IsDigit(d[Len(d)])
                /\ \A i \in 1..(Len(d) - 1) :
                      ~(d[i] = Underscore /\ d[i + 1] = Underscore)
                /\ Len(SelectSeq(d, IsDigit)) <= MaxStrDigits
    IN  IF good
        THEN IntValue(signed /\ Head(t) = MinusSign, DigitsValue(d))
        ELSE ValueError

\* value == n, for an int value and a natural number n
Is(p, n) == p.ok /\ ~p.neg /\ p.mag = Decimal(n)

\* value >= n, for an int value and a natural number n
AtLeast(p, n) ==
    LET a == p.mag
        b == Decimal(n)
    IN  /\ p.ok
        /\ \/ n = 0 /\ a = << >>
           \/ /\ ~p.neg
              /\ \/ Len(a) > Len(b)
                 \/ /\ Len(a) = Len(b)
                    /\ \/ a = b
                       \/ \E i \in 1..Len(a) :
                             a[i] > b[i] /\ \A j \in 1..(i - 1) : a[j] = b[j]

\* str.startswith(prefix)
StartsWith(s, prefix) ==
    Len(s) >= Len(prefix) /\ SubSeq(s, 1, Len(prefix)) = prefix

\* The characters whose lower-case form starts with 'y': 'Y' and 'y'.
LowersToY == {89, 121}

\* choice.lower().startswith('y'): str.lower() maps character by character,
\* and 'Y' and 'y' are the only characters it maps to a text starting with 'y'.
SaysYes(s) == s # << >> /\ Head(s) \in LowersToY

\* word in text (substring test)
In(word, text) ==
    \E i \in 0..(Len(text) - Len(word)) :
        SubSeq(text, i + 1, i + Len(word)) = word

\* text.split(sep) for a one-character separator
RECURSIVE Split(_, _)
Split(text, sep) ==
    IF \A i \in 1..Len(text) : text[i] # sep
    THEN << text >>
    ELSE LET k == CHOOSE i \in 1..Len(text) :
                      text[i] = sep /\ \A j \in 1..(i - 1) : text[j] # sep
         IN  << SubSeq(text, 1, k - 1) >> \o Split(SubSeq(text, k + 1, Len(text)), sep)

\* version.split('.')[-1]
LastDotPart(s) == Split(s, Dot)[Len(Split(s, Dot))]

(***************************************************************************)
(* Inputs of the user                                                      *)
(***************************************************************************)
\* What the user may type at a "Press Enter ..." prompt (the text is ignored).
EnterInputs ==
    { << >>,    \* ''
      << 113 >> }    \* 'q'

\* What the user may type at a yes/no prompt.
Responses ==
    { << >>,    \* ''
      << 121 >>,    \* 'y'
      << 89, 101, 115 >>,    \* 'Yes'
      << 110 >>,    \* 'n'
      << 110, 111 >>,    \* 'no'
      << 78, 79 >>,    \* 'NO'
      << 78, 111, 112, 101 >>,    \* 'Nope'
      << 111, 110 >>,    \* 'on'
      << 32, 121 >> }    \* ' y'

\* What the user may type at the "Enter your choice (1-5)" prompt.
MenuInputs ==
    { << 49 >>,    \* '1'
      << 50 >>,    \* '2'
      << 51 >>,    \* '3'
      << 52 >>,    \* '4'
      << 53 >>,    \* '5'
      << 48 >>,    \* '0'
      << 54 >>,    \* '6'
      << 45, 49 >>,    \* '-1'
      << 49, 95, 53 >>,    \* '1_5'
      << 43, 51 >>,    \* '+3'
      << 9, 53 >>,    \* '\t5'
      << 53, 32 >>,    \* '5 '
      << 48, 53 >>,    \* '05'
      << >>,    \* ''
      << 120 >>,    \* 'x'
      << 53, 120 >>,    \* '5x'
      << 50, 46, 48 >>,    \* '2.0'
      << 28, 53 >> }    \* '\x1c5'

(***************************************************************************)
(* Captured output of external commands                                    *)
(***************************************************************************)
EmptyText == << >>

\* ' \t\n'
BlankText ==
    << 32, 9, 10 >>

\* 'Name : Realtek Audio\n'
SomeText ==
    << 78, 97, 109, 101, 32, 58, 32, 82, 101, 97, 108, 116, 101, 107, 32,
       65, 117, 100, 105, 111, 10 >>

\* bool(text.strip())
NonBlank(text) == Strip(text) # << >>

\* [line for line in text.split('\n') if word in line][0]
FirstLineWith(text, word) ==
    LET lines == Split(text, NewLine) IN
    lines[CHOOSE i \in 1..Len(lines) :
             /\ In(word, lines[i])
             /\ \A j \in 1..(i - 1) : ~In(word, lines[j])]

NoErr == << >>

\* 'Access is denied'
AccessDenied ==
    << 65, 99, 99, 101, 115, 115, 32, 105, 115, 32, 100, 101, 110, 105,
       101, 100 >>

\* 'warning'
SomeWarning ==
    << 119, 97, 114, 110, 105, 110, 103 >>

\* 'No events were found'
NoEventsFound ==
    << 78, 111, 32, 101, 118, 101, 110, 116, 115, 32, 119, 101, 114, 101,
       32, 102, 111, 117, 110, 100 >>

\* 'Get-WinEvent : No events were found that match the specified selection criteria.'
NoEventsError ==
    << 71, 101, 116, 45, 87, 105, 110, 69, 118, 101, 110, 116, 32, 58, 32,
       78, 111, 32, 101, 118, 101, 110, 116, 115, 32, 119, 101, 114, 101,
       32, 102, 111, 117, 110, 100, 32, 116, 104, 97, 116, 32, 109, 97,
       116, 99, 104, 32, 116, 104, 101, 32, 115, 112, 101, 99, 105, 102,
       105, 101, 100, 32, 115, 101, 108, 101, 99, 116, 105, 111, 110, 32,
       99, 114, 105, 116, 101, 114, 105, 97, 46 >>

\* subprocess.CompletedProcess, or the exception the call raised (exc).
Result(exc, rc, stdout, stderr) ==
    [exc |-> exc, rc |-> rc, stdout |-> stdout, stderr |-> stderr]

Raised == Result(TRUE, 1, EmptyText, NoErr)

\* non-zero exit or raised exception
CmdFailed(r) == r.exc \/ r.rc # 0

\* ... or empty output, for a command whose output the step reads
QueryFailed(r) == CmdFailed(r) \/ ~NonBlank(r.stdout)

\* Results of a command whose output is only tested for emptiness.
GenericResults ==
    { Result(FALSE, 0, SomeText, NoErr),
      Result(FALSE, 0, EmptyText, NoErr),
      Result(FALSE, 0, BlankText, SomeWarning),
      Result(FALSE, 1, EmptyText, NoErr),
      Result(FALSE, 1, EmptyText, AccessDenied),
      Result(FALSE, 1, SomeText, NoEventsError),
      Raised }

\* Results of a command whose output is not read.
PlainResults ==
    { Result(FALSE, 0, EmptyText, NoErr),
      Result(FALSE, 1, EmptyText, NoErr),
      Result(FALSE, 2, EmptyText, AccessDenied),
      Raised }

\* Results of "net stop" / "net start".
NetResults ==
    { Result(FALSE, 0, EmptyText, NoErr),
      Result(FALSE, 2, EmptyText, AccessDenied),
      Raised }

\* Outcomes of subprocess.Popen: started, or raised.
PopenResults == { Result(FALSE, 0, EmptyText, NoErr), Raised }

(***************************************************************************)
(* Terminal transcript and command log                                     *)
(***************************************************************************)
\* One printed line (or block): kind, text, argument.  A "prompt" entry is an
\* input() call; its argument is the line the user typed.
Msg(k, t, a) == [k |-> k, t |-> t, a |-> a]

Info(t)      == Msg("info", t, << >>)
Warn(t, a)   == Msg("warn", t, a)
Err(t)       == Msg("error", t, << >>)
Ok(t)        == Msg("ok", t, << >>)
Prompt(t, a) == Msg("prompt", t, a)

HasKind(ms, k) == \E i \in 1..Len(ms) : ms[i].k = k
HasText(ms, t) == \E i \in 1..Len(ms) : ms[i].t = t

\* An external command line: the program and what is substituted into it.
Cmd(exe, arg) == [exe |-> exe, arg |-> arg]

Issued(cs, exe) == \E i \in 1..Len(cs) : cs[i].exe = exe

(***************************************************************************)
(* Shared helpers of the step actions                                      *)
(***************************************************************************)
\* pause_after_error(error_message): the message, then a blocking input().
PauseAfterError(text, e) ==
    << Err(text), Prompt("Press Enter to continue...", e) >>

\* A step function returns to main(): what it printed (ms), the commands it
\* issued (cs), whether one of them failed, whether a prompt was answered after
\* the failure, and where main() continues.
Return(ms, cs, failed, ackd, nextpc) ==
    /\ out' = out \o ms
    /\ cmds' = cmds \o cs
    /\ stepFailed' = failed
    /\ errShown' = HasKind(ms, "error")
    /\ acked' = ackd
    /\ pc' = nextpc
    /\ inBody' = FALSE

\* A blocking input() of main() between two steps.
MainPrompt(text, e, nextpc) ==
    /\ out' = Append(out, Prompt(text, e))
    /\ acked' = TRUE
    /\ pc' = nextpc
    /\ UNCHANGED << script, inBody, cmds, steps, osAdmin, is_admin, instance_id,
                    drvAnswer, scAnswer, ret, rounds, exitChosen, completed,
                    stepFailed, errShown >>

Services == << "Audiosrv", "AudioEndpointBuilder" >>

\* Placeholder of an adapter answer where no query has been made.
NoAnswer == Result(FALSE, 0, EmptyText, NoErr)

NoScAnswer == (Services[1] :> NoAnswer) @@ (Services[2] :> NoAnswer)

(***************************************************************************)
(* simple-audio-test.py                                                    *)
(***************************************************************************)
\* Mutant of SimpleNext: the volume check and the default-device check swapped.
SimpleNextSwapped(p) ==
    CASE p = "s_start"      -> "s_admin"
      [] p = "s_admin"      -> "s_version"
      [] p = "s_version"    -> "s_services"
      [] p = "s_services"   -> "s_devices"
      [] p = "s_devices"    -> "s_default"
      [] p = "s_default"    -> "s_volume"
      [] p = "s_volume"     -> "s_playprompt"
      [] p = "s_playprompt" -> "s_play"
      [] p = "s_play"       -> "s_toneprompt"
      [] p = "s_toneprompt" -> "s_tone"
      [] p = "s_tone"       -> "s_tsprompt"
      [] p = "s_trouble"    -> "s_summary"
      [] p = "s_summary"    -> "done"

\* main(): the declared order of the script.
SimpleNext(p) ==
    CASE p = "s_start"      -> "s_admin"
      [] p = "s_admin"      -> "s_version"
      [] p = "s_version"    -> "s_services"
      [] p = "s_services"   -> "s_devices"
      [] p = "s_devices"    -> "s_volume"
      [] p = "s_volume"     -> "s_default"
      [] p = "s_default"    -> "s_playprompt"
      [] p = "s_playprompt" -> "s_play"
      [] p = "s_play"       -> "s_toneprompt"
      [] p = "s_toneprompt" -> "s_tone"
      [] p = "s_tone"       -> "s_tsprompt"
      [] p = "s_trouble"    -> "s_summary"
      [] p = "s_summary"    -> "done"

\* The text each step hands to print_header.
SimpleHeader(p) ==
    CASE p = "s_start"    -> "Windows Audio Test Script"
      [] p = "s_admin"    -> "Checking Admin Privileges"
      [] p = "s_version"  -> "Checking Windows Version"
      [] p = "s_services" -> "Checking Windows Audio Services"
      [] p = "s_devices"  -> "Listing Audio Devices"
      [] p = "s_volume"   -> "Checking Volume Settings"
      [] p = "s_default"  -> "Checking Default Audio Device"
      [] p = "s_play"     -> "Playing Windows Test Sound"
      [] p = "s_tone"     -> "Playing Test Tone"
      [] p = "s_trouble"  -> "Running Windows Audio Troubleshooter"
      [] p = "s_summary"  -> "Audio Tests Completed"

SimpleHeaderPcs ==
    { "s_start", "s_admin", "s_version", "s_services", "s_devices", "s_volume",
      "s_default", "s_play", "s_tone", "s_trouble", "s_summary" }

\* The step function main() calls at each position.
SimpleStep(p) ==
    CASE p = "s_admin"    -> "check_admin_privileges"
      [] p = "s_version"  -> "check_windows_version"
      [] p = "s_services" -> "check_audio_services"
      [] p = "s_devices"  -> "list_audio_devices_with_windows_cmd"
      [] p = "s_volume"   -> "check_volume_settings_with_cmd"
      [] p = "s_default"  -> "check_default_device"
      [] p = "s_play"     -> "play_test_sound"
      [] p = "s_tone"     -> "generate_test_tone_powershell"
      [] p = "s_trouble"  -> "run_windows_troubleshooter"
      [] p = "s_summary"  -> "closing summary"
      [] OTHER            -> ""

\* print_header(text) of simple-audio-test.py: every header but the first
\* blocks on input() before it is printed.
SimplePrintHeader ==
    /\ script = "simple" /\ ~inBody /\ pc \in SimpleHeaderPcs
    /\ LET pause == SimpleHeader(pc) # "Windows Audio Test Script" IN
       \E e \in EnterInputs :
          /\ out' = (IF pause
                     THEN << Prompt("Press Enter to continue to the next section...", e) >>
                     ELSE << >>)
                    \o << Msg("header", SimpleHeader(pc), << >>) >>
          /\ acked' = (acked \/ pause)
    /\ cmds' = << >>
    /\ scAnswer' = NoScAnswer
    /\ steps' = IF SimpleStep(pc) = "" THEN steps ELSE Append(steps, SimpleStep(pc))
    /\ inBody' = TRUE
    /\ UNCHANGED << script, pc, osAdmin, is_admin, instance_id, drvAnswer,
                    ret, rounds, exitChosen, completed, stepFailed, errShown >>

\* main(): the introduction printed under the first header.
SimpleIntro ==
    /\ script = "simple" /\ inBody /\ pc = "s_start"
    /\ out' = Append(out, Info("This script will test various aspects of your Windows audio system."))
    /\ pc' = SimpleNext(pc)
    /\ inBody' = FALSE
    /\ UNCHANGED << script, cmds, steps, osAdmin, is_admin, instance_id, drvAnswer,
                    scAnswer, ret, rounds, exitChosen, completed, stepFailed,
                    errShown, acked >>

BoolText(b) == IF b THEN << "True" >> ELSE << "False" >>

\* check_admin_privileges() of simple-audio-test.py
SimpleCheckAdmin ==
    /\ script = "simple" /\ inBody /\ pc = "s_admin"
    /\ \E raised \in BOOLEAN, e \in EnterInputs :
          IF raised
          THEN Return(PauseAfterError("Error checking admin privileges", e),
                      << >>, TRUE, TRUE, SimpleNext(pc))
          ELSE Return(<< Msg("info", "Running with admin privileges", BoolText(osAdmin)) >>
                      \o (IF ~osAdmin
                          THEN << Info("NOTE: Some tests may fail without admin privileges.") >>
                          ELSE << >>),
                      << >>, FALSE, FALSE, SimpleNext(pc))
    /\ UNCHANGED << script, steps, osAdmin, is_admin, instance_id, drvAnswer,
                    scAnswer, ret, rounds, exitChosen, completed >>

\* Windows 11 is build 22000 or higher.
Win11MinBuild == 22000

\* What platform.version() may return.
VersionInputs ==
    { << 49, 48, 46, 48, 46, 50, 54, 49, 48, 48 >>,    \* '10.0.26100'
      << 49, 48, 46, 48, 46, 50, 50, 48, 48, 48 >>,    \* '10.0.22000'
      << 49, 48, 46, 48, 46, 49, 57, 48, 52, 53 >>,    \* '10.0.19045'
      << 49, 48, 46, 48, 46, 50, 50, 95, 54, 51, 49 >>,    \* '10.0.22_631'
      << 49, 48, 46, 48, 46, 9, 50, 50, 54, 51, 49 >>,    \* '10.0.\t22631'
      << 54, 46, 49, 46, 120 >>,    \* '6.1.x'
      << >> }    \* ''

\* build_number = int(version.split('.')[-1]), 0 when int() raises
BuildNumber(version) ==
    LET p == ParseInt(LastDotPart(version)) IN IF p.ok THEN p ELSE IntValue(FALSE, << >>)

\* check_windows_version()
SimpleCheckVersion ==
    /\ script = "simple" /\ inBody /\ pc = "s_version"
    /\ \E raised \in BOOLEAN, version \in VersionInputs, e \in EnterInputs :
          IF raised
          THEN Return(PauseAfterError("Error checking Windows version", e),
                      << >>, TRUE, TRUE, SimpleNext(pc))
          ELSE LET is_win11 == AtLeast(BuildNumber(version), Win11MinBuild) IN
               Return(<< Msg("info", "Windows Version", version),
                         Msg("info", "Is Windows 11", BoolText(is_win11)) >>
                      \o (IF ~is_win11
                          THEN << Warn("Warning: This script is designed for Windows 11.", << >>) >>
                          ELSE << >>),
                      << >>, FALSE, FALSE, SimpleNext(pc))
    /\ UNCHANGED << script, steps, osAdmin, is_admin, instance_id, drvAnswer,
                    scAnswer, ret, rounds, exitChosen, completed >>

(***************************************************************************)
(* check_audio_services()                                                  *)
(***************************************************************************)
\* The name of a service as text.
ServiceText(svc) ==
    IF svc = "Audiosrv"
    THEN << 65, 117, 100, 105, 111, 115, 114, 118 >>
    ELSE << 65, 117, 100, 105, 111, 69, 110, 100, 112, 111, 105, 110, 116,
            66, 117, 105, 108, 100, 101, 114 >>

\* 'SERVICE_NAME: '
ScNameLine ==
    << 83, 69, 82, 86, 73, 67, 69, 95, 78, 65, 77, 69, 58, 32 >>

\* '\n    TYPE    : 30  WIN32\n'
ScTypeLine ==
    << 10, 32, 32, 32, 32, 84, 89, 80, 69, 32, 32, 32, 32, 58, 32, 51, 48,
       32, 32, 87, 73, 78, 51, 50, 10 >>

\* '    STATE   : 4  RUNNING\n    (STOPPABLE, NOT_PAUSABLE)\n'
ScStateRunning ==
    << 32, 32, 32, 32, 83, 84, 65, 84, 69, 32, 32, 32, 58, 32, 52, 32, 32,
       82, 85, 78, 78, 73, 78, 71, 10, 32, 32, 32, 32, 40, 83, 84, 79, 80,
       80, 65, 66, 76, 69, 44, 32, 78, 79, 84, 95, 80, 65, 85, 83, 65, 66,
       76, 69, 41, 10 >>

\* '    STATE   : 1  STOPPED\n    WIN32_EXIT_CODE : 0  (0x0)\n'
ScStateStopped ==
    << 32, 32, 32, 32, 83, 84, 65, 84, 69, 32, 32, 32, 58, 32, 49, 32, 32,
       83, 84, 79, 80, 80, 69, 68, 10, 32, 32, 32, 32, 87, 73, 78, 51, 50,
       95, 69, 88, 73, 84, 95, 67, 79, 68, 69, 32, 58, 32, 48, 32, 32, 40,
       48, 120, 48, 41, 10 >>

\* '    STATE     1  STOPPED\n'
ScStateNoColon ==
    << 32, 32, 32, 32, 83, 84, 65, 84, 69, 32, 32, 32, 32, 32, 49, 32, 32,
       83, 84, 79, 80, 80, 69, 68, 10 >>

ScRunning(svc) == ScNameLine \o ServiceText(svc) \o ScTypeLine \o ScStateRunning

ScStopped(svc) == ScNameLine \o ServiceText(svc) \o ScTypeLine \o ScStateStopped

\* a STATE line without the ':' the code splits at
ScNoColon(svc) == ScNameLine \o ServiceText(svc) \o ScTypeLine \o ScStateNoColon

\* '[SC] EnumQueryServicesStatus:OpenService FAILED 1060:\n\n'
ScMissing ==
    << 91, 83, 67, 93, 32, 69, 110, 117, 109, 81, 117, 101, 114, 121, 83,
       101, 114, 118, 105, 99, 101, 115, 83, 116, 97, 116, 117, 115, 58,
       79, 112, 101, 110, 83, 101, 114, 118, 105, 99, 101, 32, 70, 65, 73,
       76, 69, 68, 32, 49, 48, 54, 48, 58, 10, 10 >>

\* What "sc query <svc>" may answer.
ScResults(svc) ==
    { Result(FALSE, 0, ScRunning(svc), NoErr),
      Result(FALSE, 0, ScStopped(svc), NoErr),
      Result(FALSE, 0, ScNoColon(svc), NoErr),
      Result(FALSE, 1, ScMissing, NoErr),
      Result(FALSE, 1, EmptyText, AccessDenied),
      Raised }

\* 'STATE'
StateWord ==
    << 83, 84, 65, 84, 69 >>

\* 'RUNNING'
RunningWord ==
    << 82, 85, 78, 78, 73, 78, 71 >>

\* state_line.split(':')[1].strip()
StateValue(stdout) == Strip(Split(FirstLineWith(stdout, StateWord), Colon)[2])

\* The body of the for loop for one service: what it prints, and whether it
\* raised (subprocess.run raising, or split(':')[1] on a line without ':').
ScCheckOne(service_name, result) ==
    IF result.exc
    THEN [ms |-> << >>, exc |-> TRUE]
    ELSE IF In(StateWord, result.stdout)
    THEN IF Len(Split(FirstLineWith(result.stdout, StateWord), Colon)) < 2
         THEN [ms |-> << Msg("info", "Service", << service_name >>) >>, exc |-> TRUE]
         ELSE [ms |-> << Msg("info", "Service", << service_name >>),
                         Msg("info", "Status", StateValue(result.stdout)) >>
                      \o (IF ~In(RunningWord, StateValue(result.stdout))
                          THEN << Warn("WARNING: service is not running!", << service_name >>),
                                  Msg("info", "Consider starting it with: net start",
                                      << service_name >>) >>
                          ELSE << >>),
               exc |-> FALSE]
    ELSE [ms |-> << Msg("error", "Service not found!", << service_name >>) >>,
          exc |-> FALSE]

\* for service_name in services_to_check, inside the one try block: an
\* exception leaves the loop.
RECURSIVE ScLoop(_, _)
ScLoop(i, ans) ==
    IF i > Len(Services)
    THEN [ms |-> << >>, cs |-> << >>, exc |-> FALSE, failed |-> FALSE]
    ELSE LET one == ScCheckOne(Services[i], ans[Services[i]])
             cmd == Cmd("sc query", << Services[i] >>)
             bad == \/ CmdFailed(ans[Services[i]])
                    \/ ~In(StateWord, ans[Services[i]].stdout)
                    \/ one.exc
         IN  IF one.exc
             THEN [ms |-> one.ms, cs |-> << cmd >>, exc |-> TRUE, failed |-> TRUE]
             ELSE LET rest == ScLoop(i + 1, ans) IN
                  [ms |-> one.ms \o rest.ms, cs |-> << cmd >> \o rest.cs,
                   exc |-> rest.exc, failed |-> bad \/ rest.failed]

SimpleCheckServices ==
    /\ script = "simple" /\ inBody /\ pc = "s_services"
    /\ \E a1 \in ScResults(Services[1]), a2 \in ScResults(Services[2]), e \in EnterInputs :
          LET ans == (Services[1] :> a1) @@ (Services[2] :> a2)
              loop == ScLoop(1, ans)
          IN  /\ scAnswer' = ans
              /\ Return(loop.ms \o (IF loop.exc
                                    THEN PauseAfterError("Error checking audio services", e)
                                    ELSE << >>),
                        loop.cs, loop.failed, loop.exc, SimpleNext(pc))
    /\ UNCHANGED << script, steps, osAdmin, is_admin, instance_id, drvAnswer,
                    ret, rounds, exitChosen, completed >>

(***************************************************************************)
(* The other checks of simple-audio-test.py                                *)
(***************************************************************************)
ErrorLines(r, e) ==
    IF r.stderr # NoErr
    THEN << Msg("error", "Error:", r.stderr), Prompt("Press Enter to continue...", e) >>
    ELSE << >>

\* list_audio_devices_with_windows_cmd(): e1 and e2 are what the first and the
\* second input() call of the function read.
SimpleListDevices ==
    /\ script = "simple" /\ inBody /\ pc = "s_devices"
    /\ \E result \in GenericResults, result2 \in GenericResults,
          e1 \in EnterInputs, e2 \in EnterInputs :
          LET cmd  == Cmd("Get-CimInstance Win32_SoundDevice", << >>)
              cmd2 == Cmd("Get-WmiObject Win32_SoundDevice", << "Name", "Status" >>)
              text == "Error listing audio devices"
          IN  IF result.exc
              THEN Return(PauseAfterError(text, e1), << cmd >>, TRUE, TRUE, SimpleNext(pc))
              ELSE IF result.rc = 0 /\ NonBlank(result.stdout)
              THEN Return(<< Info("Found audio devices:"), Info("stdout") >>,
                          << cmd >>, FALSE, FALSE, SimpleNext(pc))
              ELSE LET first == << Err("No audio devices found or command failed.") >>
                                \o ErrorLines(result, e1)
                                \o << Info("Trying alternative method...") >>
                       e == IF result.stderr # NoErr THEN e2 ELSE e1
                   IN  IF result2.exc
                       THEN Return(first \o PauseAfterError(text, e), << cmd, cmd2 >>,
                                   TRUE, TRUE, SimpleNext(pc))
                       ELSE IF result2.rc = 0 /\ NonBlank(result2.stdout)
                       THEN Return(first \o << Info("stdout") >>, << cmd, cmd2 >>,
                                   TRUE, result.stderr # NoErr, SimpleNext(pc))
                       ELSE Return(first \o << Err("Alternative method also failed.") >>
                                         \o ErrorLines(result2, e),
                                   << cmd, cmd2 >>, TRUE,
                                   result.stderr # NoErr \/ result2.stderr # NoErr,
                                   SimpleNext(pc))
    /\ UNCHANGED << script, steps, osAdmin, is_admin, instance_id, drvAnswer,
                    scAnswer, ret, rounds, exitChosen, completed >>

\* check_volume_settings_with_cmd()
SimpleCheckVolume ==
    /\ script = "simple" /\ inBody /\ pc = "s_volume"
    /\ \E result \in GenericResults, e \in EnterInputs :
          LET cmd2 == Cmd("Get-WmiObject Win32_SoundDevice", << "StatusInfo" >>) IN
          IF result.exc
          THEN Return(PauseAfterError("Error checking volume", e), << cmd2 >>,
                      TRUE, TRUE, SimpleNext(pc))
          ELSE IF result.rc = 0
          THEN Return(<< Info("Audio device status:"), Info("stdout") >>, << cmd2 >>,
                      FALSE, FALSE, SimpleNext(pc))
          ELSE Return(<< Err("Could not get volume/mute status.") >>, << cmd2 >>,
                      TRUE, FALSE, SimpleNext(pc))
    /\ UNCHANGED << script, steps, osAdmin, is_admin, instance_id, drvAnswer,
                    scAnswer, ret, rounds, exitChosen, completed >>

\* check_default_device()
SimpleCheckDefault ==
    /\ script = "simple" /\ inBody /\ pc = "s_default"
    /\ \E result \in GenericResults, e \in EnterInputs :
          LET cmd == Cmd("Get-WmiObject Win32_SoundDevice", << "Status -eq OK", "Name" >>) IN
          IF result.exc
          THEN Return(PauseAfterError("Error checking default device", e), << cmd >>,
                      TRUE, TRUE, SimpleNext(pc))
          ELSE IF result.rc = 0 /\ NonBlank(result.stdout)
          THEN Return(<< Info("Default audio device:") >>, << cmd >>,
                      FALSE, FALSE, SimpleNext(pc))
          ELSE Return(<< Err("Could not determine default audio device.") >>, << cmd >>,
                      TRUE, FALSE, SimpleNext(pc))
    /\ UNCHANGED << script, steps, osAdmin, is_admin, instance_id, drvAnswer,
                    scAnswer, ret, rounds, exitChosen, completed >>

(***************************************************************************)
(* The interactive tests of simple-audio-test.py                           *)
(***************************************************************************)
\* main(): input("Press Enter to continue with audio playback tests...")
SimplePlayPrompt ==
    /\ script = "simple" /\ ~inBody /\ pc = "s_playprompt"
    /\ \E e \in EnterInputs :
          MainPrompt("Press Enter to continue with audio playback tests...", e,
                     SimpleNext(pc))

\* play_test_sound(): neither subprocess.run result is looked at.
SimplePlaySound ==
    /\ script = "simple" /\ inBody /\ pc = "s_play"
    /\ \E r1 \in PlainResults, r2 \in PlainResults, response \in Responses,
          e \in EnterInputs :
          LET c1 == Cmd("SystemSounds.Play", << "Beep" >>)
              c2 == Cmd("SystemSounds.Play", << "Exclamation" >>)
              pause == PauseAfterError("Error playing system sound", e)
              m1 == Info("Attempting to play Windows default sound...")
              m2 == Info("Attempting to play Windows exclamation sound...")
          IN  IF r1.exc
              THEN Return(<< m1 >> \o pause, << c1 >>, TRUE, TRUE, SimpleNext(pc))
              ELSE IF r2.exc
              THEN Return(<< m1, m2 >> \o pause, << c1, c2 >>, TRUE, TRUE, SimpleNext(pc))
              ELSE Return(<< m1, m2, Prompt("Did you hear the system sounds? (y/n)", response),
                             IF SaysYes(response)
                             THEN Ok("Great! Your audio is working.")
                             ELSE Err("Audio test failed. No sound was heard.") >>,
                          << c1, c2 >>, CmdFailed(r1) \/ CmdFailed(r2), TRUE,
                          SimpleNext(pc))
    /\ UNCHANGED << script, steps, osAdmin, is_admin, instance_id, drvAnswer,
                    scAnswer, ret, rounds, exitChosen, completed >>

\* main(): input("Press Enter to play a test tone...")
SimpleTonePrompt ==
    /\ script = "simple" /\ ~inBody /\ pc = "s_toneprompt"
    /\ \E e \in EnterInputs :
          MainPrompt("Press Enter to play a test tone...", e, SimpleNext(pc))

\* generate_test_tone_powershell()
SimpleTestTone ==
    /\ script = "simple" /\ inBody /\ pc = "s_tone"
    /\ \E r \in PlainResults, response \in Responses, e \in EnterInputs :
          LET c == Cmd("console.beep", << "1000", "3000" >>)
              m == Info("Attempting to play a 1000Hz test tone for 3 seconds...")
          IN  IF r.exc
              THEN Return(<< m >> \o PauseAfterError("Error playing test tone", e),
                          << c >>, TRUE, TRUE, SimpleNext(pc))
              ELSE Return(<< m, Prompt("Did you hear the test tone? (y/n)", response),
                             IF SaysYes(response)
                             THEN Ok("Great! Your audio is working.")
                             ELSE Err("Test tone failed. No sound was heard.") >>,
                          << c >>, CmdFailed(r), TRUE, SimpleNext(pc))
    /\ UNCHANGED << script, steps, osAdmin, is_admin, instance_id, drvAnswer,
                    scAnswer, ret, rounds, exitChosen, completed >>

\* main(): "Do you want to run the Windows Audio Troubleshooter? (y/n)";
\* the troubleshooter step runs only on an answer that starts with 'y'.
SimpleTroubleshooterPrompt ==
    /\ script = "simple" /\ ~inBody /\ pc = "s_tsprompt"
    /\ \E choice \in Responses :
          MainPrompt("Do you want to run the Windows Audio Troubleshooter? (y/n)", choice,
                     IF SaysYes(choice) THEN "s_trouble" ELSE "s_summary")

\* run_windows_troubleshooter()
SimpleTroubleshooter ==
    /\ script = "simple" /\ inBody /\ pc = "s_trouble"
    /\ \E r \in PopenResults, e \in EnterInputs :
          LET c == Cmd("msdt.exe", << "AudioPlaybackDiagnostic" >>)
              m == Info("Launching Windows audio troubleshooter...")
          IN  IF r.exc
              THEN Return(<< m >> \o PauseAfterError("Error launching troubleshooter", e)
                                 \o << Info("Try running it manually") >>,
                          << c >>, TRUE, TRUE, SimpleNext(pc))
              ELSE Return(<< m, Info("Troubleshooter launched.") >>, << c >>,
                          FALSE, FALSE, SimpleNext(pc))
    /\ UNCHANGED << script, steps, osAdmin, is_admin, instance_id, drvAnswer,
                    scAnswer, ret, rounds, exitChosen, completed >>

\* main(): the closing summary printed under the last header.
SimpleSummary ==
    /\ script = "simple" /\ inBody /\ pc = "s_summary"
    /\ out' = Append(out, Info("If you're still having audio issues, consider:"))
    /\ completed' = completed + 1
    /\ pc' = SimpleNext(pc)
    /\ inBody' = FALSE
    /\ UNCHANGED << script, cmds, steps, osAdmin, is_admin, instance_id, drvAnswer,
                    scAnswer, ret, rounds, exitChosen, stepFailed, errShown, acked >>

(***************************************************************************)
(* test-audio.py                                                           *)
(***************************************************************************)
\* main(): the declared order of the diagnostic part, the return of every menu
\* action to the "Press Enter to return to the menu" prompt, and the summary.
RealtekNext(p) ==
    CASE p = "r_start"     -> "r_admin"
      [] p = "r_admin"     -> "r_driver"
      [] p = "r_driver"    -> "r_evprompt"
      [] p = "r_evprompt"  -> "r_events"
      [] p = "r_events"    -> "r_solutions"
      [] p = "r_solutions" -> "r_choice"
      [] p = "r_restart"   -> "r_return"
      [] p = "r_download"  -> "r_return"
      [] p = "r_reset"     -> "r_return"
      [] p = "r_trouble"   -> "r_return"
      [] p = "r_return"    -> "r_choice"
      [] p = "r_summary"   -> "done"

RealtekHeader(p) ==
    CASE p = "r_start"     -> "Realtek Audio Fix Tool"
      [] p = "r_admin"     -> "Checking Admin Privileges"
      [] p = "r_driver"    -> "Checking Realtek Audio Driver Status"
      [] p = "r_events"    -> "Checking Audio Driver Events"
      [] p = "r_solutions" -> "Possible Solutions"
      [] p = "r_restart"   -> "Attempting to Restart Realtek Audio Driver"
      [] p = "r_download"  -> "Downloading Latest Realtek Audio Driver"
      [] p = "r_reset"     -> "Resetting Windows Audio Components"
      [] p = "r_trouble"   -> "Running Windows Audio Troubleshooter"
      [] p = "r_summary"   -> "Realtek Audio Fix Tool Completed"

RealtekHeaderPcs ==
    { "r_start", "r_admin", "r_driver", "r_events", "r_solutions", "r_restart",
      "r_download", "r_reset", "r_trouble", "r_summary" }

RealtekStep(p) ==
    CASE p = "r_admin"    -> "check_admin_privileges"
      [] p = "r_driver"   -> "check_realtek_driver_status"
      [] p = "r_events"   -> "check_driver_events"
      [] p = "r_restart"  -> "attempt_driver_restart"
      [] p = "r_download" -> "download_latest_driver"
      [] p = "r_reset"    -> "reset_windows_audio"
      [] p = "r_trouble"  -> "run_audio_troubleshooter"
      [] p = "r_summary"  -> "closing summary"
      [] OTHER            -> ""

\* print_header(text) of test-audio.py: prints, never blocks.
RealtekPrintHeader ==
    /\ script = "realtek" /\ ~inBody /\ pc \in RealtekHeaderPcs
    /\ out' = << Msg("header", RealtekHeader(pc), << >>) >>
    /\ cmds' = << >>
    /\ drvAnswer' = NoAnswer
    /\ steps' = IF RealtekStep(pc) = "" THEN steps ELSE Append(steps, RealtekStep(pc))
    /\ inBody' = TRUE
    /\ UNCHANGED << script, pc, osAdmin, is_admin, instance_id, scAnswer,
                    ret, rounds, exitChosen, completed, stepFailed, errShown, acked >>

\* main(): the introduction printed under the first header.
RealtekIntro ==
    /\ script = "realtek" /\ inBody /\ pc = "r_start"
    /\ out' = Append(out, Info("This script will help diagnose and potentially fix Realtek audio driver issues."))
    /\ pc' = RealtekNext(pc)
    /\ inBody' = FALSE
    /\ UNCHANGED << script, cmds, steps, osAdmin, is_admin, instance_id, drvAnswer,
                    scAnswer, ret, rounds, exitChosen, completed, stepFailed,
                    errShown, acked >>

\* check_admin_privileges() of test-audio.py; main() keeps the value in is_admin.
RealtekCheckAdmin ==
    /\ script = "realtek" /\ inBody /\ pc = "r_admin"
    /\ \E raised \in BOOLEAN, e \in EnterInputs :
          IF raised
          THEN /\ Return(PauseAfterError("Error checking admin privileges", e),
                         << >>, TRUE, TRUE, RealtekNext(pc))
               /\ is_admin' = FALSE
          ELSE /\ Return(<< Msg("info", "Running with admin privileges", BoolText(osAdmin)) >>
                         \o (IF ~osAdmin
                             THEN << Warn("WARNING: Many driver operations require admin privileges.",
                                          << >>) >>
                             ELSE << >>),
                         << >>, FALSE, FALSE, RealtekNext(pc))
               /\ is_admin' = osAdmin
    /\ UNCHANGED << script, steps, osAdmin, instance_id, drvAnswer, scAnswer, ret,
                    rounds, exitChosen, completed >>

(***************************************************************************)
(* check_realtek_driver_status() and check_driver_events()                 *)
(***************************************************************************)
\* Python's None, as a value no text is equal to.
None == << -1 >>

\* 'Status       : OK\nFriendlyName : Realtek Audio\n'
DrvHead ==
    << 83, 116, 97, 116, 117, 115, 32, 32, 32, 32, 32, 32, 32, 58, 32, 79,
       75, 10, 70, 114, 105, 101, 110, 100, 108, 121, 78, 97, 109, 101, 32,
       58, 32, 82, 101, 97, 108, 116, 101, 107, 32, 65, 117, 100, 105, 111,
       10 >>

\* 'Service      : IntcAzAudAddService\n\n'
DrvTail ==
    << 83, 101, 114, 118, 105, 99, 101, 32, 32, 32, 32, 32, 32, 58, 32, 73,
       110, 116, 99, 65, 122, 65, 117, 100, 65, 100, 100, 83, 101, 114,
       118, 105, 99, 101, 10, 10 >>

DrvText(idlines) == DrvHead \o idlines \o DrvTail

\* 'InstanceId   : HDAUDIO\\FUNC_01&VEN_10EC\\A\n'
IdLineA ==
    << 73, 110, 115, 116, 97, 110, 99, 101, 73, 100, 32, 32, 32, 58, 32,
       72, 68, 65, 85, 68, 73, 79, 92, 70, 85, 78, 67, 95, 48, 49, 38, 86,
       69, 78, 95, 49, 48, 69, 67, 92, 65, 10 >>

\* 'InstanceId   :\tHDAUDIO\\FUNC_01&VEN_10EC\\B \n'
IdLineB ==
    << 73, 110, 115, 116, 97, 110, 99, 101, 73, 100, 32, 32, 32, 58, 9, 72,
       68, 65, 85, 68, 73, 79, 92, 70, 85, 78, 67, 95, 48, 49, 38, 86, 69,
       78, 95, 49, 48, 69, 67, 92, 66, 32, 10 >>

\* 'InstanceId   : \n'
IdLineBlank ==
    << 73, 110, 115, 116, 97, 110, 99, 101, 73, 100, 32, 32, 32, 58, 32,
       10 >>

\* 'InstanceId HDAUDIO\\FUNC_01&VEN_10EC\\A\n'
IdLineNoColon ==
    << 73, 110, 115, 116, 97, 110, 99, 101, 73, 100, 32, 72, 68, 65, 85,
       68, 73, 79, 92, 70, 85, 78, 67, 95, 48, 49, 38, 86, 69, 78, 95, 49,
       48, 69, 67, 92, 65, 10 >>

\* 'InstanceId   : SWD\\MMDEVAPI\\{0.0.0}:1\n'
IdLineColon ==
    << 73, 110, 115, 116, 97, 110, 99, 101, 73, 100, 32, 32, 32, 58, 32,
       83, 87, 68, 92, 77, 77, 68, 69, 86, 65, 80, 73, 92, 123, 48, 46, 48,
       46, 48, 125, 58, 49, 10 >>

\* 'DeviceInstanceId : USB\\VID_0BDA\\C\n'
IdLineDevice ==
    << 68, 101, 118, 105, 99, 101, 73, 110, 115, 116, 97, 110, 99, 101, 73,
       100, 32, 58, 32, 85, 83, 66, 92, 86, 73, 68, 95, 48, 66, 68, 65, 92,
       67, 10 >>

\* 'InstanceId'
InstanceIdWord ==
    << 73, 110, 115, 116, 97, 110, 99, 101, 73, 100 >>

\* What the Get-PnpDevice query may answer.
DriverResults ==
    { Result(FALSE, 0, DrvText(IdLineA), NoErr),
      Result(FALSE, 0, DrvText(IdLineB), NoErr),
      Result(FALSE, 0, DrvText(IdLineB \o IdLineA), NoErr),
      Result(FALSE, 0, DrvText(IdLineDevice \o IdLineA), NoErr),
      Result(FALSE, 0, DrvText(IdLineBlank), NoErr),
      Result(FALSE, 0, DrvText(IdLineNoColon), NoErr),
      Result(FALSE, 0, DrvText(IdLineColon), NoErr),
      Result(FALSE, 0, DrvText(<< >>), NoErr),
      Result(FALSE, 0, EmptyText, NoErr),
      Result(FALSE, 0, BlankText, SomeWarning),
      Result(FALSE, 1, DrvText(IdLineA), NoErr),
      Result(FALSE, 1, EmptyText, AccessDenied),
      Raised }

\* The for loop over result.stdout.split('\n'): the first line holding
\* 'InstanceId' gives line.split(':')[1].strip() (IndexError, exc, when the
\* line has no ':'); no such line leaves instance_id None.
ExtractInstanceId(stdout) ==
    IF ~In(InstanceIdWord, stdout)
    THEN [exc |-> FALSE, id |-> None]
    ELSE LET fields == Split(FirstLineWith(stdout, InstanceIdWord), Colon) IN
         IF Len(fields) < 2
         THEN [exc |-> TRUE, id |-> None]
         ELSE [exc |-> FALSE, id |-> Strip(fields[2])]

\* "if instance_id:" -- None and '' are both false
Truthy(id) == id # None /\ id # << >>

\* check_realtek_driver_status(): what it prints and what it returns.
DriverStatus(result, e) ==
    LET pause == PauseAfterError("Error checking Realtek driver", e) IN
    IF result.exc
    THEN [ms |-> pause, value |-> None, ackd |-> TRUE]
    ELSE IF result.rc = 0 /\ NonBlank(result.stdout)
    THEN LET x == ExtractInstanceId(result.stdout)
             shown == << Info("Realtek driver details:"), Info("stdout") >>
         IN  IF x.exc
             THEN [ms |-> shown \o pause, value |-> None, ackd |-> TRUE]
             ELSE IF Truthy(x.id)
             THEN [ms |-> Append(shown, Msg("info", "Device Instance ID", x.id)),
                   value |-> x.id, ackd |-> FALSE]
             ELSE [ms |-> Append(shown, Err("Could not find Realtek device instance ID")),
                   value |-> None, ackd |-> FALSE]
    ELSE [ms |-> << Err("Could not retrieve Realtek driver information.") >>
                 \o ErrorLines(result, e),
          value |-> None, ackd |-> result.stderr # NoErr]

RealtekCheckDriver ==
    /\ script = "realtek" /\ inBody /\ pc = "r_driver"
    /\ \E result \in DriverResults, e \in EnterInputs :
          LET d == DriverStatus(result, e) IN
          /\ drvAnswer' = result
          /\ instance_id' = d.value
          /\ Return(d.ms, << Cmd("Get-PnpDevice", << "*Realtek*Audio*" >>) >>,
                    QueryFailed(result) \/ ~Truthy(d.value), d.ackd, RealtekNext(pc))
    /\ UNCHANGED << script, steps, osAdmin, is_admin, scAnswer, ret, rounds,
                    exitChosen, completed >>

\* main(): input("Press Enter to check Windows event logs ...")
RealtekEventsPrompt ==
    /\ script = "realtek" /\ ~inBody /\ pc = "r_evprompt"
    /\ \E e \in EnterInputs :
          MainPrompt("Press Enter to check Windows event logs for audio driver issues...",
                     e, RealtekNext(pc))

\* Mutant of EventsQuery: the instance id is dropped.
EventsQueryGeneral(id) == Cmd("Get-WinEvent Audio AudioEndpointBuilder", << >>)

\* check_driver_events(instance_id): the query it builds.
EventsQuery(id) ==
    IF Truthy(id)
    THEN Cmd("Get-WinEvent DriverFrameworks-UserMode Message -like", id)
    ELSE Cmd("Get-WinEvent Audio AudioEndpointBuilder", << >>)

\* check_driver_events(instance_id), called by main() with its instance_id.
RealtekCheckEvents ==
    /\ script = "realtek" /\ inBody /\ pc = "r_events"
    /\ \E result \in GenericResults, e \in EnterInputs :
          LET cmd == EventsQuery(instance_id) IN
          IF result.exc
          THEN Return(PauseAfterError("Error checking driver events", e), << cmd >>,
                      TRUE, TRUE, RealtekNext(pc))
          ELSE IF result.rc = 0 /\ NonBlank(result.stdout)
          THEN Return(<< Info("Recent audio driver events:"), Info("stdout") >>, << cmd >>,
                      FALSE, FALSE, RealtekNext(pc))
          ELSE LET loud == result.stderr # NoErr
                           /\ ~In(NoEventsFound, result.stderr)
               IN  Return(<< Err("No relevant audio driver events found.") >>
                          \o (IF loud THEN ErrorLines(result, e) ELSE << >>),
                          << cmd >>, TRUE, loud, RealtekNext(pc))
    /\ UNCHANGED << script, steps, osAdmin, is_admin, instance_id, drvAnswer,
                    scAnswer, ret, rounds, exitChosen, completed >>

(***************************************************************************)
(* The menu actions of test-audio.py                                       *)
(***************************************************************************)
DisableCmd == Cmd("Disable-PnpDevice", << "*Realtek*Audio*" >>)
EnableCmd  == Cmd("Enable-PnpDevice", << "*Realtek*Audio*" >>)

\* attempt_driver_restart(): what it prints, issues and returns.  The result
\* of the disable command (r1) is not looked at.
DriverRestart(admin, adminRaised, r1, r2, e) ==
    LET pause == PauseAfterError("Error restarting driver", e)
        m1 == Info("Attempting to restart Realtek Audio driver...")
        m2 == Info("Waiting 5 seconds...")
    IN  IF adminRaised
        THEN [ms |-> pause, cs |-> << >>, value |-> FALSE, failed |-> TRUE, ackd |-> TRUE]
        ELSE IF ~admin
        THEN [ms |-> << Err("ERROR: Admin privileges required to restart drivers."),
                        Info("Please run this script as administrator.") >>,
              cs |-> << >>, value |-> FALSE, failed |-> FALSE, ackd |-> FALSE]
        ELSE IF r1.exc
        THEN [ms |-> << m1 >> \o pause, cs |-> << DisableCmd >>, value |-> FALSE,
              failed |-> TRUE, ackd |-> TRUE]
        ELSE IF r2.exc
        THEN [ms |-> << m1, m2 >> \o pause, cs |-> << DisableCmd, EnableCmd >>,
              value |-> FALSE, failed |-> TRUE, ackd |-> TRUE]
        ELSE IF r2.rc = 0
        THEN [ms |-> << m1, m2, Ok("Realtek Audio driver successfully restarted.") >>,
              cs |-> << DisableCmd, EnableCmd >>, value |-> TRUE,
              failed |-> CmdFailed(r1), ackd |-> FALSE]
        ELSE [ms |-> << m1, m2, Err("Failed to restart Realtek Audio driver.") >>
                     \o (IF r2.stderr # NoErr
                         THEN << Msg("error", "Error:", r2.stderr) >> ELSE << >>),
              cs |-> << DisableCmd, EnableCmd >>, value |-> FALSE,
              failed |-> TRUE, ackd |-> FALSE]

RealtekDriverRestart ==
    /\ script = "realtek" /\ inBody /\ pc = "r_restart"
    /\ \E adminRaised \in BOOLEAN, r1 \in PlainResults, r2 \in PlainResults,
          e \in EnterInputs :
          LET d == DriverRestart(osAdmin, adminRaised, r1, r2, e) IN
          /\ ret' = d.value
          /\ Return(d.ms, d.cs, d.failed, d.ackd, RealtekNext(pc))
    /\ UNCHANGED << script, steps, osAdmin, is_admin, instance_id, drvAnswer,
                    scAnswer, rounds, exitChosen, completed >>

\* download_latest_driver(): no try block; an exception of subprocess.Popen
\* leaves the function and main() (whose except clause names ValueError only).
RealtekDownloadDriver ==
    /\ script = "realtek" /\ inBody /\ pc = "r_download"
    /\ \E choice \in Responses, r \in PopenResults :
          LET guide == << Info("To download the latest Realtek HD Audio driver, you have several options:"),
                          Prompt("Would you like to open Device Manager to update the driver? (y/n): ",
                                 choice) >>
              cmd == Cmd("devmgmt.msc", << >>)
          IN  IF ~SaysYes(choice)
              THEN Return(guide, << >>, FALSE, FALSE, RealtekNext(pc))
              ELSE IF r.exc
              THEN Return(Append(guide, Err("Traceback (most recent call last):")),
                          << cmd >>, TRUE, FALSE, "crashed")
              ELSE Return(Append(guide, Info("Device Manager opened.")), << cmd >>,
                          FALSE, FALSE, RealtekNext(pc))
    /\ UNCHANGED << script, steps, osAdmin, is_admin, instance_id, drvAnswer,
                    scAnswer, ret, rounds, exitChosen, completed >>

\* Mutant of Declined: only the bare answer "n" or "N" cancels.
DeclinedOnlyN(choice) == choice \in { << 110 >>, << 78 >> }

\* if not choice.lower().startswith('y'): the reset is cancelled
Declined(choice) == ~SaysYes(choice)

Reversed(s) == [i \in 1..Len(s) |-> s[Len(s) + 1 - i]]

\* for service in services: "net stop"; for service in reversed(services):
\* "net start"
ResetCmds ==
    [i \in 1..Len(Services) |-> Cmd("net stop", << Services[i] >>)]
    \o [i \in 1..Len(Services) |-> Cmd("net start", << Reversed(Services)[i] >>)]

\* Index of the first command that raises, 0 if none does.
FirstRaise(rs) ==
    IF \E i \in 1..Len(rs) : rs[i].exc
    THEN CHOOSE i \in 1..Len(rs) : rs[i].exc /\ \A j \in 1..(i - 1) : ~rs[j].exc
    ELSE 0

\* reset_windows_audio(): what it prints, issues and returns.  No result of a
\* net stop / net start command is looked at.
ResetAudio(admin, adminRaised, choice, rs, e) ==
    LET pause == PauseAfterError("Error resetting audio components", e)
        ask == << Warn("WARNING: Your system audio will be temporarily disabled.", << >>),
                  Prompt("Continue? (y/n): ", choice) >>
        stopping == Info("Stopping audio services...")
        starting == << Info("Waiting 3 seconds..."), Info("Starting audio services...") >>
        k == FirstRaise(rs)
    IN  IF adminRaised
        THEN [ms |-> pause, cs |-> << >>, value |-> FALSE, failed |-> TRUE, ackd |-> TRUE]
        ELSE IF ~admin
        THEN [ms |-> << Err("ERROR: Admin privileges required to reset audio components."),
                        Info("Please run this script as administrator.") >>,
              cs |-> << >>, value |-> FALSE, failed |-> FALSE, ackd |-> FALSE]
        ELSE IF Declined(choice)
        THEN [ms |-> Append(ask, Info("Operation cancelled.")),
              cs |-> << >>, value |-> FALSE, failed |-> FALSE, ackd |-> FALSE]
        ELSE IF k # 0
        THEN [ms |-> ask \o << stopping >>
                     \o (IF k > Len(Services) THEN starting ELSE << >>) \o pause,
              cs |-> SubSeq(ResetCmds, 1, k), value |-> FALSE,
              failed |-> TRUE, ackd |-> TRUE]
        ELSE [ms |-> ask \o << stopping >> \o starting
                     \o << Ok("Audio services have been restarted.") >>,
              cs |-> ResetCmds, value |-> TRUE,
              failed |-> \E i \in 1..Len(rs) : CmdFailed(rs[i]), ackd |-> FALSE]

RealtekResetAudio ==
    /\ script = "realtek" /\ inBody /\ pc = "r_reset"
    /\ \E adminRaised \in BOOLEAN, e \in EnterInputs :
       \* an answer is read only if the prompt is reached, results are drawn
       \* only if commands are run
       \E choice \in (IF adminRaised \/ ~osAdmin THEN { << >> } ELSE Responses) :
       \E rs \in (IF adminRaised \/ ~osAdmin \/ Declined(choice)
                  THEN { [i \in 1..Len(ResetCmds) |-> NoAnswer] }
                  ELSE [1..Len(ResetCmds) -> NetResults]) :
          LET d == ResetAudio(osAdmin, adminRaised, choice, rs, e) IN
          /\ ret' = d.value
          /\ Return(d.ms, d.cs, d.failed, d.ackd, RealtekNext(pc))
    /\ UNCHANGED << script, steps, osAdmin, is_admin, instance_id, drvAnswer,
                    scAnswer, rounds, exitChosen, completed >>

\* run_audio_troubleshooter()
RealtekTroubleshooter ==
    /\ script = "realtek" /\ inBody /\ pc = "r_trouble"
    /\ \E r \in PopenResults, e \in EnterInputs :
          LET c == Cmd("msdt.exe", << "AudioPlaybackDiagnostic" >>)
              m == Info("Launching Windows audio troubleshooter...")
          IN  IF r.exc
              THEN Return(<< m >> \o PauseAfterError("Error launching troubleshooter", e)
                                 \o << Info("Try running it manually") >>,
                          << c >>, TRUE, TRUE, RealtekNext(pc))
              ELSE Return(<< m, Info("Troubleshooter launched.") >>, << c >>,
                          FALSE, FALSE, RealtekNext(pc))
    /\ UNCHANGED << script, steps, osAdmin, is_admin, instance_id, drvAnswer,
                    scAnswer, ret, rounds, exitChosen, completed >>

(***************************************************************************)
(* The menu loop of test-audio.py main()                                   *)
(***************************************************************************)
\* main(): the list of solutions printed under "Possible Solutions".
RealtekSolutions ==
    /\ script = "realtek" /\ inBody /\ pc = "r_solutions"
    /\ out' = Append(out, Info("Based on your system, here are some possible solutions:"))
    /\ pc' = RealtekNext(pc)
    /\ inBody' = FALSE
    /\ UNCHANGED << script, cmds, steps, osAdmin, is_admin, instance_id, drvAnswer,
                    scAnswer, ret, rounds, exitChosen, completed, stepFailed,
                    errShown, acked >>

NeedAdmin == "Admin privileges required. Please restart the script as administrator."

\* Mutant of Dispatch: a ValueError leaves the loop.
DispatchBreakOnError(p, admin) ==
    IF ~p.ok THEN "r_summary"
    ELSE CASE Is(p, 1) -> IF admin THEN "r_restart" ELSE "r_return"
           [] Is(p, 2) -> "r_download"
           [] Is(p, 3) -> IF admin THEN "r_reset" ELSE "r_return"
           [] Is(p, 4) -> "r_trouble"
           [] Is(p, 5) -> "r_summary"
           [] OTHER     -> "r_return"

\* Mutant of Dispatch: choices 1 and 3 are dispatched without looking at is_admin.
DispatchNoGate(p, admin) ==
    IF ~p.ok THEN "r_choice"
    ELSE CASE Is(p, 1) -> "r_restart"
           [] Is(p, 2) -> "r_download"
           [] Is(p, 3) -> "r_reset"
           [] Is(p, 4) -> "r_trouble"
           [] Is(p, 5) -> "r_summary"
           [] OTHER     -> "r_return"

\* Mutant of Dispatch: the final else falls into the last action.
DispatchNoElse(p, admin) ==
    IF ~p.ok THEN "r_choice"
    ELSE CASE Is(p, 1) -> IF admin THEN "r_restart" ELSE "r_return"
           [] Is(p, 2) -> "r_download"
           [] Is(p, 3) -> IF admin THEN "r_reset" ELSE "r_return"
           [] Is(p, 5) -> "r_summary"
           [] OTHER     -> "r_trouble"

\* The if / elif chain on choice = int(input(...)): where main() goes.  p is
\* the outcome of int(): ValueError (p.ok = FALSE) returns to the prompt.
Dispatch(p, admin) ==
    IF ~p.ok THEN "r_choice"
    ELSE CASE Is(p, 1) -> IF admin THEN "r_restart" ELSE "r_return"
           [] Is(p, 2) -> "r_download"
           [] Is(p, 3) -> IF admin THEN "r_reset" ELSE "r_return"
           [] Is(p, 4) -> "r_trouble"
           [] Is(p, 5) -> "r_summary"
           [] OTHER     -> "r_return"

\* ... and what main() itself prints in the chain.
DispatchMsgs(p, admin) ==
    IF ~p.ok THEN << Info("Please enter a number.") >>
    ELSE IF (Is(p, 1) \/ Is(p, 3)) /\ ~admin THEN << Err(NeedAdmin) >>
    ELSE IF \A k \in 1..5 : ~Is(p, k)
    THEN << Err("Invalid choice. Please enter a number between 1 and 5.") >>
    ELSE << >>

IsExit(p) == Is(p, 5)

\* One pass of "while True": read the choice, dispatch.  The transcript is
\* kept from the latest choice prompt on.
RealtekChoice ==
    /\ script = "realtek" /\ ~inBody /\ pc = "r_choice"
    /\ \E s \in MenuInputs :
          LET p == ParseInt(s) IN
          /\ rounds < MaxMenuInputs \/ IsExit(p)
          /\ out' = << Prompt("Enter your choice (1-5): ", s) >>
                    \o DispatchMsgs(p, is_admin)
          /\ pc' = Dispatch(p, is_admin)
          /\ rounds' = IF IsExit(p) THEN rounds ELSE rounds + 1
          /\ exitChosen' = (exitChosen \/ IsExit(p))
    /\ acked' = TRUE
    /\ UNCHANGED << script, inBody, cmds, steps, osAdmin, is_admin, instance_id,
                    drvAnswer, scAnswer, ret, completed, stepFailed, errShown >>

\* main(): input("Press Enter to return to the menu...")
RealtekReturnPrompt ==
    /\ script = "realtek" /\ ~inBody /\ pc = "r_return"
    /\ \E e \in EnterInputs :
          MainPrompt("Press Enter to return to the menu...", e, RealtekNext(pc))

\* main(): the closing summary printed under the last header.
RealtekSummary ==
    /\ script = "realtek" /\ inBody /\ pc = "r_summary"
    /\ out' = Append(out, Info("If your audio issues persist, consider:"))
    /\ completed' = completed + 1
    /\ pc' = RealtekNext(pc)
    /\ inBody' = FALSE
    /\ UNCHANGED << script, cmds, steps, osAdmin, is_admin, instance_id, drvAnswer,
                    scAnswer, ret, rounds, exitChosen, stepFailed, errShown, acked >>

(***************************************************************************)
(* Specification                                                           *)
(***************************************************************************)
Init ==
    /\ script \in { "simple", "realtek" }
    /\ pc = (IF script = "simple" THEN "s_start" ELSE "r_start")
    /\ inBody = FALSE
    /\ out = << >>
    /\ cmds = << >>
    /\ steps = << >>
    /\ osAdmin \in BOOLEAN
    /\ is_admin = FALSE
    /\ instance_id = None
    /\ drvAnswer = NoAnswer
    /\ scAnswer = NoScAnswer
    /\ ret = FALSE
    /\ rounds = 0
    /\ exitChosen = FALSE
    /\ completed = 0
    /\ stepFailed = FALSE
    /\ errShown = FALSE
    /\ acked = FALSE

Next ==
    \/ SimplePrintHeader
    \/ SimpleIntro
    \/ SimpleCheckAdmin
    \/ SimpleCheckVersion
    \/ SimpleCheckServices
    \/ SimpleListDevices
    \/ SimpleCheckVolume
    \/ SimpleCheckDefault
    \/ SimplePlayPrompt
    \/ SimplePlaySound
    \/ SimpleTonePrompt
    \/ SimpleTestTone
    \/ SimpleTroubleshooterPrompt
    \/ SimpleTroubleshooter
    \/ SimpleSummary
    \/ RealtekPrintHeader
    \/ RealtekIntro
    \/ RealtekCheckAdmin
    \/ RealtekCheckDriver
    \/ RealtekEventsPrompt
    \/ RealtekCheckEvents
    \/ RealtekSolutions
    \/ RealtekChoice
    \/ RealtekDriverRestart
    \/ RealtekDownloadDriver
    \/ RealtekResetAudio
    \/ RealtekTroubleshooter
    \/ RealtekReturnPrompt
    \/ RealtekSummary

Spec == Init /\ [][Next]_vars

\* The interpreter keeps running the statements that wait for nothing: the
\* header and the closing summary of test-audio.py read no input and run no
\* command.
FairSpec == Spec /\ WF_vars(RealtekPrintHeader) /\ WF_vars(RealtekSummary)

TypeOK ==
    /\ script \in { "simple", "realtek" }
    /\ inBody \in BOOLEAN
    /\ is_admin \in BOOLEAN
    /\ osAdmin \in BOOLEAN
    /\ ret \in BOOLEAN
    /\ rounds \in 0..MaxMenuInputs
    /\ completed \in 0..1

(***************************************************************************)
(* Properties                                                              *)
(***************************************************************************)
IsPrefix(s, t) == Len(s) <= Len(t) /\ SubSeq(t, 1, Len(s)) = s

Count(s, x) == Cardinality({ i \in 1..Len(s) : s[i] = x })

Stopped == pc \in { "done", "crashed" }

SimpleDeclared ==
    << "check_admin_privileges", "check_windows_version", "check_audio_services",
       "list_audio_devices_with_windows_cmd", "check_volume_settings_with_cmd",
       "check_default_device", "play_test_sound", "generate_test_tone_powershell",
       "run_windows_troubleshooter", "closing summary" >>

SimpleWithoutTroubleshooter ==
    << "check_admin_privileges", "check_windows_version", "check_audio_services",
       "list_audio_devices_with_windows_cmd", "check_volume_settings_with_cmd",
       "check_default_device", "play_test_sound", "generate_test_tone_powershell",
       "closing summary" >>

RealtekDiagnostics ==
    << "check_admin_privileges", "check_realtek_driver_status", "check_driver_events" >>

MenuActions ==
    { "attempt_driver_restart", "download_latest_driver", "reset_windows_audio",
      "run_audio_troubleshooter" }

TroubleshooterQuestion == "Do you want to run the Windows Audio Troubleshooter? (y/n)"

\* C1 (as claimed): in every run of either script the steps are visited in
\* their declared order and every declared step is executed exactly once: no
\* step is skipped, repeated or reordered.
\* (The menu actions of the remediation tool, which the user selects, are left
\* out of "declared steps" here.)
C1_EveryStepOnceInOrder ==
    /\ script = "simple" =>
         /\ IsPrefix(steps, SimpleDeclared)
         /\ pc = "done" => steps = SimpleDeclared
    /\ script = "realtek" =>
         /\ \A i \in 1..Len(steps) :
               i <= Len(RealtekDiagnostics) => steps[i] = RealtekDiagnostics[i]
         /\ Count(steps, "closing summary") <= 1
         /\ pc = "done" => Count(steps, "closing summary") = 1

\* C1 (amended): the unconditional steps of either script are entered in their
\* declared order, each exactly once by the time the closing summary has been
\* printed.  The troubleshooter step of the general test is entered (once,
\* between the tone test and the summary) exactly when the user's answer starts
\* with 'y'; the four menu actions of the remediation tool are entered zero or
\* more times each, between the three diagnostic steps and the summary.
C1_UnconditionalStepsOnceInOrder ==
    /\ script = "simple" =>
         /\ IsPrefix(steps, SimpleDeclared) \/ IsPrefix(steps, SimpleWithoutTroubleshooter)
         /\ pc = "done" => steps \in { SimpleDeclared, SimpleWithoutTroubleshooter }
         /\ (pc \in { "s_trouble", "s_summary" } /\ ~inBody
             /\ out # << >> /\ out[Len(out)].t = TroubleshooterQuestion)
            => (pc = "s_trouble" <=> SaysYes(out[Len(out)].a))
    /\ script = "realtek" =>
         /\ \A i \in 1..Len(steps) :
               /\ i <= Len(RealtekDiagnostics) => steps[i] = RealtekDiagnostics[i]
               /\ i > Len(RealtekDiagnostics) =>
                     \/ steps[i] \in MenuActions
                     \/ steps[i] = "closing summary" /\ i = Len(steps)
         /\ pc = "done" =>
               /\ IsPrefix(RealtekDiagnostics, steps)
               /\ steps[Len(steps)] = "closing summary"
               /\ Count(steps, "closing summary") = 1

\* C1 witness: a completed run of the general test in which the user declined
\* the troubleshooter, so that declared step never ran.
C1_Witness ==
    script = "simple" /\ pc = "done" /\ steps = SimpleWithoutTroubleshooter

\* C2 (as claimed): a failing step never prevents the following steps from
\* running: whatever fails, the run does not stop before the closing summary.
C2_FailureNeverStopsRun == Stopped => completed = 1

ChoicePrompt == "Enter your choice (1-5): "

\* C3: at the choice prompt an input that int() rejects, or that is an integer
\* outside 1..5, enters no step, issues no command, leaves is_admin and
\* instance_id alone and leads back to the choice prompt (directly, or through
\* the "Press Enter to return to the menu" prompt); an input that is 5 leaves
\* the loop for the closing summary without entering an action.
C3_InvalidInputReprompts ==
    [][ /\ pc = "r_choice" =>
             LET p == ParseInt(out'[1].a) IN
             /\ (\A k \in 1..5 : ~Is(p, k)) =>
                   /\ pc' \in { "r_choice", "r_return" }
                   /\ pc' = "r_choice" <=> ~p.ok
                   /\ ~inBody'
                   /\ cmds' = cmds /\ steps' = steps
                   /\ is_admin' = is_admin /\ instance_id' = instance_id
                   /\ completed' = completed
             /\ Is(p, 5) =>
                   pc' = "r_summary" /\ ~inBody' /\ cmds' = cmds /\ steps' = steps
        /\ pc = "r_return" =>
             /\ pc' = "r_choice" /\ ~inBody'
             /\ cmds' = cmds /\ steps' = steps
             /\ is_admin' = is_admin /\ instance_id' = instance_id
      ]_vars

\* C3 witness: an integer outside 1..5 was typed and the run waits at the
\* return prompt, having entered nothing.
C3_Witness ==
    /\ pc = "r_return" /\ ~inBody
    /\ out # << >> /\ out[1].t = ChoicePrompt
    /\ ParseInt(out[1].a).ok /\ \A k \in 1..5 : ~Is(ParseInt(out[1].a), k)
    /\ HasText(out, "Invalid choice. Please enter a number between 1 and 5.")

ContinueQuestion == "Continue? (y/n): "

\* The user's answer to the "Continue? (y/n)" prompt starts with "no".
AnsweredNo ==
    \E i \in 1..Len(out) :
        /\ out[i].t = ContinueQuestion
        /\ Len(out[i].a) >= 2
        /\ out[i].a[1] \in {78, 110} /\ out[i].a[2] \in {79, 111}

\* C4: when reset_windows_audio() has returned after a "no"-prefixed answer to
\* "Continue? (y/n)", it has issued no command at all (no net stop, no net
\* start), has printed the cancellation and has returned False.
C4_DeclinedResetDoesNothing ==
    (script = "realtek" /\ pc = "r_return" /\ ~inBody /\ AnsweredNo) =>
        /\ ~Issued(cmds, "net stop") /\ ~Issued(cmds, "net start")
        /\ cmds = << >>
        /\ ret = FALSE
        /\ out[Len(out)] = Info("Operation cancelled.")
        /\ ~HasKind(out, "ok")

\* C4 witness: reset_windows_audio() has returned after the answer "Nope".
C4_Witness ==
    /\ script = "realtek" /\ pc = "r_return" /\ ~inBody
    /\ steps[Len(steps)] = "reset_windows_audio"
    /\ \E i \in 1..Len(out) :
          out[i].t = ContinueQuestion /\ out[i].a = << 78, 111, 112, 101 >>

DeviceEventsExe == "Get-WinEvent DriverFrameworks-UserMode Message -like"
GeneralEventsExe == "Get-WinEvent Audio AudioEndpointBuilder"

\* The driver-status query gave nothing to discover an id from.
DiscoveryFailed(r) ==
    \/ r.exc \/ r.rc # 0 \/ ~NonBlank(r.stdout)
    \/ ~In(InstanceIdWord, r.stdout)

\* C5: the value main() holds when check_realtek_driver_status() has returned
\* is the text after the first ':' of the first InstanceId line of a successful
\* answer, or None when discovery failed; and when check_driver_events() has
\* returned, it has issued exactly one query: the device-specific one with that
\* very value embedded if it is an instance id, the general audio-events one if
\* it is None.
C5_EventsQueryEmbedsDiscoveredId ==
    /\ (script = "realtek" /\ pc = "r_evprompt") =>
          /\ instance_id # None =>
                /\ ~DiscoveryFailed(drvAnswer)
                /\ instance_id =
                      Strip(Split(FirstLineWith(drvAnswer.stdout, InstanceIdWord), Colon)[2])
                /\ instance_id # << >>
          /\ DiscoveryFailed(drvAnswer) => instance_id = None
    /\ (script = "realtek" /\ pc = "r_solutions" /\ ~inBody) =>
          /\ steps = RealtekDiagnostics
          /\ Len(cmds) = 1
          /\ instance_id # None => cmds[1] = Cmd(DeviceEventsExe, instance_id)
          /\ instance_id = None => cmds[1] = Cmd(GeneralEventsExe, << >>)

\* C5 witness: the events check has run with a discovered instance id.
C5_Witness ==
    /\ script = "realtek" /\ pc = "r_solutions" /\ ~inBody
    /\ instance_id # None
    /\ cmds # << >> /\ cmds[1].arg = instance_id

\* "sc query" answered with a STATE line whose value is not RUNNING.
ReportsNotRunning(r) ==
    /\ ~r.exc
    /\ In(StateWord, r.stdout)
    /\ Len(Split(FirstLineWith(r.stdout, StateWord), Colon)) >= 2
    /\ ~In(RunningWord, StateValue(r.stdout))

\* C6 (as claimed): when check_audio_services() has returned, every service
\* the adapter reports as not running has a warning naming it in the report,
\* whatever the adapter answers for the other service.
C6_EachStoppedServiceWarned ==
    (script = "simple" /\ pc = "s_devices" /\ ~inBody) =>
        \A i \in 1..Len(Services) :
            ReportsNotRunning(scAnswer[Services[i]]) =>
                \E j \in 1..Len(out) :
                    out[j].k = "warn" /\ out[j].a = << Services[i] >>

\* A step function (or the closing summary) has been entered and is about to
\* run; stepFailed, errShown and acked still describe the step before it.
StepEntered ==
    /\ inBody
    /\ \/ script = "simple" /\ SimpleStep(pc) # ""
       \/ script = "realtek" /\ RealtekStep(pc) # ""

\* C7 (as claimed): whenever a step fails, an error message is printed and a
\* prompt is answered before the next step runs.
C7_FailureReportedAndAcknowledged ==
    (StepEntered /\ stepFailed) => (errShown /\ acked)

\* C8 (as claimed): no step prints a success message when one of the commands
\* it issued failed.
C8_NoSuccessAfterFailedCommand ==
    stepFailed => ~HasKind(out, "ok")

\* C9: the closing summary of the remediation tool is printed at most once,
\* only after the three diagnostic steps and only after an input parsing to 5
\* was read at the choice prompt; and once such an input has been read, the run
\* ends with the summary printed.
C9_CompletedOnlyThroughExit ==
    /\ [](script = "realtek" =>
            /\ completed <= 1
            /\ (pc = "r_summary" \/ completed = 1) =>
                  exitChosen /\ IsPrefix(RealtekDiagnostics, steps)
            /\ pc = "done" => completed = 1)
    /\ ((script = "realtek" /\ exitChosen) ~> (pc = "done" /\ completed = 1))

\* C9 witness: the tool has completed after at least one menu action.
C9_Witness ==
    /\ script = "realtek" /\ pc = "done" /\ completed = 1 /\ exitChosen
    /\ Len(steps) > Len(RealtekDiagnostics) + 1

MutatingExes == { "Disable-PnpDevice", "Enable-PnpDevice", "net stop", "net start" }

\* C10: while is_admin is False (the admin check answered false, or raised), no
\* Disable-PnpDevice, Enable-PnpDevice, net stop or net start command is issued
\* and neither attempt_driver_restart() nor reset_windows_audio() is entered.
C10_NoMutationWithoutAdmin ==
    (script = "realtek" /\ ~is_admin) =>
        /\ \A i \in 1..Len(cmds) : cmds[i].exe \notin MutatingExes
        /\ \A i \in 1..Len(steps) :
              steps[i] \notin { "attempt_driver_restart", "reset_windows_audio" }

\* C10 witness: the admin check raised on an elevated process, the user chose
\* 1 or 3 and was turned away.
C10_Witness ==
    /\ script = "realtek" /\ ~is_admin /\ osAdmin
    /\ pc = "r_return" /\ HasText(out, NeedAdmin)

\* reset_windows_audio() has returned to the menu loop: the transcript and the
\* command log are those of the action.
ResetReturned ==
    /\ script = "realtek" /\ pc = "r_return" /\ ~inBody
    /\ steps[Len(steps)] = "reset_windows_audio"
    /\ HasText(out, "Resetting Windows Audio Components")

\* The user's answer to the "Continue? (y/n)" prompt confirmed the reset.
AnsweredYes ==
    \E i \in 1..Len(out) : out[i].t = ContinueQuestion /\ SaysYes(out[i].a)

\* The services named by the commands of kind exe, in the order issued.
Targets(cs, exe) ==
    LET IsExe(c) == c.exe = exe
        sel == SelectSeq(cs, IsExe)
    IN  [i \in 1..Len(sel) |-> sel[i].arg[1]]

\* Every "net stop" comes before every "net start"; the stops follow the order
\* of the services list and the starts the reverse order.
ResetOrdered(cs) ==
    /\ \A i, j \in 1..Len(cs) :
          (cs[i].exe = "net stop" /\ cs[j].exe = "net start") => i < j
    /\ IsPrefix(Targets(cs, "net stop"), Services)
    /\ IsPrefix(Targets(cs, "net start"), Reversed(Services))

\* Every service that was sent a stop was sent exactly one start.
ResetPaired(cs) ==
    \A k \in 1..Len(Services) :
        Count(cs, Cmd("net stop", << Services[k] >>)) >= 1 =>
            Count(cs, Cmd("net start", << Services[k] >>)) = 1

\* C11 (as claimed): when a confirmed reset_windows_audio() has returned, every
\* net stop it issued precedes every net start, the stops are in the order
\* Audiosrv, AudioEndpointBuilder and the starts in the reverse order, and each
\* service that was sent a stop has been sent exactly one start.
C11_StoppedServicesRestarted ==
    (ResetReturned /\ AnsweredYes) => (ResetOrdered(cmds) /\ ResetPaired(cmds))

\* attempt_driver_restart() has returned to the menu loop: the transcript and
\* the command log are those of the action.
RestartReturned ==
    /\ script = "realtek" /\ pc = "r_return" /\ ~inBody
    /\ steps[Len(steps)] = "attempt_driver_restart"
    /\ HasText(out, "Attempting to Restart Realtek Audio Driver")

\* C12 (as claimed): when attempt_driver_restart() has returned, every disable
\* command it issued is followed by an enable command.
C12_DisableFollowedByEnable ==
    RestartReturned =>
        \A i \in 1..Len(cmds) :
            cmds[i] = DisableCmd =>
                \E j \in (i + 1)..Len(cmds) : cmds[j] = EnableCmd

====
